---- MODULE Spec2Model ----
(***************************************************************************)
(* Model of tmlib.workflow.corilla.stats.OnlineStatistics: the online      *)
(* (Welford) per-pixel mean / variance accumulator with its running        *)
(* percentile sums.                                                        *)
(*                                                                         *)
(* Floating point values are modelled as exact rationals <<num, den>> with *)
(* den > 0, extended by the three non-finite values of IEEE arithmetic:    *)
(* <<1, 0>> = +inf, <<-1, 0>> = -inf and <<0, 0>> = nan.  Rounding error   *)
(* of float64 is not modelled.                                             *)
(*                                                                         *)
(* Pixel arrays are one-dimensional: an array of shape (k,) is a sequence  *)
(* of length k.  numpy broadcasts a (1,) array against any (k,) array and  *)
(* raises ValueError for two lengths that differ and are both > 1.         *)
(*                                                                         *)
(* The percentile arrays _q and _percentiles have 10^(decimals+2)          *)
(* elements.  All operations on them are elementwise, so the model keeps   *)
(* _q by its number of points and _percentiles at the indices of           *)
(* GridIdx(precision): the first, the middle and the last.                 *)
(***************************************************************************)
EXTENDS Integers, Sequences, FiniteSets, TLC

\* ---------------------------------------------------------------- bounds
\* updates explored per accumulator
MaxUpdates == 2

\* tile queries address the columns and rows 0 .. MaxTile
MaxTile == 2

\* at most MaxMapobjects map objects are stored
MaxMapobjects == 2

\* raw (unsigned integer) pixel intensities; the non-zero ones are powers of
\* ten so that log10 is exact
PixelValues == {0, 10}
\* what np.empty may hand back for one element: zeroed or recycled memory
GarbageValues == {0, 7}
\* the constructor arguments tried, both sides of the valid range [0, 3]
DecimalsTried == -1 .. 4

\* ------------------------------------------------------- float arithmetic
NaN == <<0, 0>>
PInf == <<1, 0>>
NInf == <<-1, 0>>

Abs(x) == IF x < 0 THEN -x ELSE x

Sgn(x) == IF x < 0 THEN -1 ELSE IF x = 0 THEN 0 ELSE 1

RECURSIVE GCD(_, _)
GCD(a, b) == IF b = 0 THEN a ELSE GCD(b, a % b)

\* the rational n/d (d > 0) in lowest terms
Rat(n, d) == LET g == GCD(Abs(n), d) IN <<n \div g, d \div g>>

\* an integer as a float
Float(k) == <<k, 1>>

IsFinite(a) == a[2] # 0

FNeg(a) == <<-a[1], a[2]>>

\* finite operands are brought to their least common denominator
FAdd(a, b) ==
    IF IsFinite(a) /\ IsFinite(b)
    THEN LET g == GCD(a[2], b[2])
         IN  Rat(a[1] * (b[2] \div g) + b[1] * (a[2] \div g), (a[2] \div g) * b[2])
    ELSE IF a = NaN \/ b = NaN THEN NaN
    ELSE IF ~IsFinite(a) /\ ~IsFinite(b) THEN (IF a = b THEN a ELSE NaN)
    ELSE IF IsFinite(a) THEN b ELSE a

FSub(a, b) == FAdd(a, FNeg(b))

\* finite operands are cancelled crosswise before they are multiplied
FMul(a, b) ==
    IF IsFinite(a) /\ IsFinite(b)
    THEN LET g1 == GCD(Abs(a[1]), b[2])
             g2 == GCD(Abs(b[1]), a[2])
         IN  Rat((a[1] \div g1) * (b[1] \div g2), (a[2] \div g2) * (b[2] \div g1))
    ELSE IF a = NaN \/ b = NaN THEN NaN
    ELSE IF a[1] = 0 \/ b[1] = 0 THEN NaN
    ELSE <<Sgn(a[1]) * Sgn(b[1]), 0>>

\* a / k for an integer k >= 0 (numpy float division: x / 0 is inf or nan)
FDivInt(a, k) ==
    IF ~IsFinite(a) THEN a
    ELSE IF k = 0 THEN <<Sgn(a[1]), 0>>
    ELSE Rat(a[1], a[2] * k)

FLess(a, b) ==
    IF a = NaN \/ b = NaN THEN FALSE
    ELSE IF IsFinite(a) /\ IsFinite(b) THEN a[1] * b[2] < b[1] * a[2]
    ELSE IF a = b THEN FALSE
    ELSE a = NInf \/ b = PInf

\* floor of a finite float
Floor(a) == a[1] \div a[2]

RECURSIVE Log10Int(_)
Log10Int(k) == IF k < 10 THEN 0 ELSE 1 + Log10Int(k \div 10)

RECURSIVE Pow10(_)
Pow10(e) == IF e <= 0 THEN 1 ELSE 10 * Pow10(e - 1)

\* np.log10 of one element; exact on the powers of ten, -inf at 0, nan below
Log10(a) ==
    IF a = NaN \/ a = NInf THEN NaN
    ELSE IF a = PInf THEN PInf
    ELSE IF a[1] = 0 THEN NInf
    ELSE IF a[1] < 0 THEN NaN
    ELSE IF a[1] >= a[2] THEN Float(Log10Int(a[1] \div a[2]))
    ELSE Float(-Log10Int(a[2] \div a[1]))

\* ------------------------------------------------------------ numpy arrays
\* element j of s when s is broadcast to a longer array
At(s, j) == IF Len(s) = 1 THEN s[1] ELSE s[j]

\* can arrays of lengths k and m be combined elementwise
Broadcastable(k, m) == k = m \/ k = 1 \/ m = 1

BroadcastLen(k, m) == IF k >= m THEN k ELSE m

\* np.zeros(image_dimensions, dtype=float)
Zeros(image_dimensions) == [j \in 1 .. image_dimensions[1] |-> Float(0)]

\* np.linspace(start, stop, num)[i], i counted from 0
Linspace(start, stop, num, i) ==
    IF num = 1 THEN Float(start)
    ELSE FAdd(Float(start), Rat(i * (stop - start), num - 1))

\* image.pixels.astype(float)
AsFloat(image) ==
    IF image.dtype = "uint" THEN [j \in DOMAIN image.pixels |-> Float(image.pixels[j])]
    ELSE image.pixels

\* np.percentile(a, q): the flattened array is sorted once; for each
\* probability q in [0, 100] the result is the linear interpolation between
\* the two nearest ranks
Sorted(a) == SortSeq(a, FLess)

PercentileOfSorted(s, q) ==
    LET pos == FMul(q, Rat(Len(s) - 1, 100))
        lo == Floor(pos)
        hi == IF lo + 1 < Len(s) THEN lo + 1 ELSE lo
        frac == FSub(pos, Float(lo))
    IN  FAdd(s[lo + 1], FMul(frac, FSub(s[hi + 1], s[lo + 1])))

\* the indices (from 0) of the percentile arrays that the model keeps
GridIdx(precision) == {0, precision \div 2, precision - 1}

\* elementwise a - b, a + b, a * b with broadcasting, and a / k for an integer k
ASub(a, b) == [j \in 1 .. BroadcastLen(Len(a), Len(b)) |-> FSub(At(a, j), At(b, j))]

AAdd(a, b) == [j \in 1 .. BroadcastLen(Len(a), Len(b)) |-> FAdd(At(a, j), At(b, j))]

AMul(a, b) == [j \in 1 .. BroadcastLen(Len(a), Len(b)) |-> FMul(At(a, j), At(b, j))]

ADivInt(a, k) == [j \in 1 .. Len(a) |-> FDivInt(a[j], k)]

\* Python 2 round(x, decimals): to the nearest multiple of 10^-decimals, a
\* half away from zero; the whole and the fractional part of |x| are scaled
\* apart
Round(x, decimals) ==
    LET scale == Pow10(decimals)
        whole == Abs(x[1]) \div x[2]
        frac == Rat(Abs(x[1]) % x[2], x[2])
        mag == whole * scale + Floor(FAdd(FMul(frac, Float(scale)), Rat(1, 2)))
    IN  Rat(Sgn(x[1]) * mag, scale)

\* Python int(x) of a finite float: truncation toward zero
PyInt(a) == Sgn(a[1]) * (Abs(a[1]) \div a[2])

\* ------------------------------------------------------- OnlineStatistics
\* the value of a name that is bound to no object
None == [isNone |-> TRUE]

\* element i of self._q; the field _q holds the number of points of the grid
Q(self, i) == Linspace(0, 100, self._q, i)

\* line 45: 0 <= decimals <= 3
DecimalsInRange(decimals) == 0 <= decimals /\ decimals <= 3

\* a grid one decade too coarse
PrecisionOneDecadeShort(decimals) == Pow10(decimals + 1)

\* line 47: the number of points of the probability grid
Precision(decimals) == Pow10(decimals + 2)

\* OnlineStatistics.__init__.  np.empty does not initialise _percentiles:
\* garbage is the content of the memory it returns.
init(image_dimensions, decimals, garbage) ==
    IF ~DecimalsInRange(decimals)
    THEN [raised |-> "ValueError", self |-> None]
    ELSE LET precision == Precision(decimals)
         IN  [raised |-> "none",
              self |-> [n |-> 0,
                        image_dimensions |-> image_dimensions,
                        _mean |-> Zeros(image_dimensions),
                        _M2 |-> Zeros(image_dimensions),
                        _q |-> precision,
                        _percentiles |-> [i \in GridIdx(precision) |-> Float(garbage)],
                        _keys |-> [i \in GridIdx(precision) |->
                                      Round(Linspace(0, 100, precision, i), decimals)]]]

\* line 64: self._percentiles += np.percentile(image.pixels, self._q)
AddPercentiles(self, image) ==
    LET s == Sorted(AsFloat(image))
    IN  [self EXCEPT !._percentiles =
            [i \in DOMAIN @ |-> FAdd(@[i], PercentileOfSorted(s, Q(self, i)))]]

\* the log_transform flag ignored
ArrayNeverLog(image, log_transform) == AsFloat(image)

\* lines 66-68: the float array the mean and M2 are updated with
Array(image, log_transform) ==
    IF log_transform
    THEN [j \in DOMAIN image.pixels |-> Log10(AsFloat(image)[j])]
    ELSE AsFloat(image)

\* the mean moved by the whole difference instead of its n-th part
WelfordMeanUndivided(mean, delta_mean, n) == AAdd(mean, delta_mean)

\* line 71: self._mean + delta_mean / self.n
WelfordMean(mean, delta_mean, n) == AAdd(mean, ADivInt(delta_mean, n))

\* M2 updated with the difference to the old mean twice
WelfordM2OldMean(M2, delta_mean, array, mean) == AAdd(M2, AMul(delta_mean, delta_mean))

\* line 72: self._M2 + delta_mean * (array - self._mean), with the new mean
WelfordM2(M2, delta_mean, array, mean) == AAdd(M2, AMul(delta_mean, ASub(array, mean)))

\* update with the percentiles taken of the transformed array
updatePercentilesOfArray(self, image, log_transform) ==
    LET array == Array(image, log_transform)
        s1 == AddPercentiles(self, [dtype |-> "float", pixels |-> array])
        s2 == [s1 EXCEPT !.n = @ + 1]
    IN  IF ~Broadcastable(Len(array), Len(self._mean))
        THEN [raised |-> "ValueError", self |-> s2]
        ELSE LET delta_mean == ASub(array, self._mean)
                 mean == WelfordMean(self._mean, delta_mean, s2.n)
                 M2 == WelfordM2(self._M2, delta_mean, array, mean)
             IN  [raised |-> "none", self |-> [s2 EXCEPT !._mean = mean, !._M2 = M2]]

\* OnlineStatistics.update: the object as the call leaves it and the exception
\* raised, if any.  array - self._mean raises ValueError when the two shapes
\* cannot be broadcast, after lines 64 and 69 have run.
update(self, image, log_transform) ==
    LET s1 == AddPercentiles(self, image)
        array == Array(image, log_transform)
        s2 == [s1 EXCEPT !.n = @ + 1]
    IN  IF ~Broadcastable(Len(array), Len(self._mean))
        THEN [raised |-> "ValueError", self |-> s2]
        ELSE LET delta_mean == ASub(array, self._mean)
                 mean == WelfordMean(self._mean, delta_mean, s2.n)
                 M2 == WelfordM2(self._M2, delta_mean, array, mean)
             IN  [raised |-> "none", self |-> [s2 EXCEPT !._mean = mean, !._M2 = M2]]

\* var without the not-a-number fill below two samples
varZerosBelowTwo(self) ==
    IF self.n < 2
    THEN [j \in 1 .. self.image_dimensions[1] |-> Float(0)]
    ELSE ADivInt(self._M2, self.n - 1)

\* OnlineStatistics.var
var(self) ==
    IF self.n < 2
    THEN [j \in 1 .. self.image_dimensions[1] |-> NaN]
    ELSE ADivInt(self._M2, self.n - 1)

\* OnlineStatistics.mean
mean(self) == self._mean

\* OnlineStatistics.percentiles: int() raises on a non-finite quotient (also
\* when n = 0); otherwise each grid index gives its key and its value
percentiles(self) ==
    IF \E i \in DOMAIN self._percentiles : ~IsFinite(FDivInt(self._percentiles[i], self.n))
    THEN [raised |-> "ValueError", dict |-> <<>>]
    ELSE [raised |-> "none",
          dict |-> [i \in DOMAIN self._percentiles |->
                       [key |-> self._keys[i],
                        value |-> PyInt(FDivInt(self._percentiles[i], self.n))]]]

\* np.sqrt of one element, kept symbolic: the root of a finite x >= 0 is the
\* record [sqrt |-> x]; the root of nan or of a negative number is nan
Sqrt(a) ==
    IF a = NaN \/ a = NInf THEN [sqrt |-> NaN]
    ELSE IF a = PInf THEN [sqrt |-> PInf]
    ELSE IF a[1] < 0 THEN [sqrt |-> NaN]
    ELSE [sqrt |-> a]

\* OnlineStatistics.std
std(self) == [j \in DOMAIN var(self) |-> Sqrt(var(self)[j])]

\* a read of percentiles that divides the running sums in place
readDividesInPlace(self, name) ==
    IF name = "percentiles"
    THEN [self |-> [self EXCEPT !._percentiles =
                       [i \in DOMAIN @ |-> FDivInt(@[i], self.n)]],
          raised |-> percentiles(self).raised,
          value |-> percentiles(self).dict]
    ELSE [self |-> self, raised |-> "none",
          value |-> IF name = "var" THEN var(self)
                    ELSE IF name = "mean" THEN mean(self) ELSE std(self)]

\* reading the property name of the accumulator: the object as the read
\* leaves it, the exception raised and the value returned.  None of the four
\* getters assigns to an attribute or writes into an array of self.
read(self, name) ==
    [self |-> self,
     raised |-> IF name = "percentiles" THEN percentiles(self).raised ELSE "none",
     value |-> IF name = "var" THEN var(self)
               ELSE IF name = "mean" THEN mean(self)
               ELSE IF name = "std" THEN std(self)
               ELSE percentiles(self).dict]

\* ------------------------------------------------------------- map objects
\* A geometry is the union of closed axis-parallel boxes of the map (a box may
\* be as thin as a segment or a point) together with the number of vertices
\* of its ring; a geometry column that is NULL is None.
Box(minx, maxx, miny, maxy) ==
    [minx |-> minx, maxx |-> maxx, miny |-> miny, maxy |-> maxy]

BoxesIntersect(a, b) ==
    /\ a.minx <= b.maxx /\ b.minx <= a.maxx
    /\ a.miny <= b.maxy /\ b.miny <= a.maxy

\* PostGIS ST_Intersects of a geometry column with a box; on a NULL column
\* the SQL value is NULL, which selects no row in a filter, negated or not
ST_Intersects(geom, box) ==
    geom # None /\ \E a \in geom.boxes : BoxesIntersect(a, box)

\* PostGIS ST_AsGeoJSON of a polygon column and of a point column
ST_AsGeoJSON(kind, geom) ==
    IF geom = None THEN None
    ELSE IF kind = "Point" THEN [type |-> "Point", coordinates |-> geom]
    ELSE [type |-> "Polygon", coordinates |-> geom.boxes]

\* the zoom level intersection_filter takes for the highest of the pyramid
max_zoom == 6

\* MapobjectOutline.intersection_filter: the extent of a tile of zoom level z
\* in map coordinates (z <= max_zoom in every call made here)
size(z) == 256 * 2 ^ (max_zoom - z)

\* MapobjectOutline.intersection_filter: the tile polygon and its two borders
tile(x, y, z) ==
    LET x0 == x * size(z)
        y0 == y * size(z)
    IN  Box(x0, x0 + size(z), (0 - y0) - size(z), 0 - y0)

\* a top border on the edge y = maxy
top_borderAtMaxY(x, y, z) ==
    LET t == tile(x, y, z) IN Box(t.minx, t.maxx, t.maxy, t.maxy)

top_border(x, y, z) ==
    LET t == tile(x, y, z) IN Box(t.minx, t.maxx, t.miny, t.miny)

left_border(x, y, z) ==
    LET t == tile(x, y, z) IN Box(t.minx, t.minx, t.miny, t.maxy)

\* a filter that never excludes a border
intersection_filterTileOnly(geom_poly, x, y, z) ==
    ST_Intersects(geom_poly, tile(x, y, z))

\* a filter that excludes both borders for every tile
intersection_filterAlwaysExcludes(geom_poly, x, y, z) ==
    /\ ST_Intersects(geom_poly, tile(x, y, z))
    /\ ~ST_Intersects(geom_poly, left_border(x, y, z))
    /\ ~ST_Intersects(geom_poly, top_border(x, y, z))

\* MapobjectOutline.intersection_filter, applied to the polygon of one outline
intersection_filter(geom_poly, x, y, z) ==
    /\ ST_Intersects(geom_poly, tile(x, y, z))
    /\ x # 0 => ~ST_Intersects(geom_poly, left_border(x, y, z))
    /\ y # 0 => ~ST_Intersects(geom_poly, top_border(x, y, z))

\* centroids at the switch level too
do_simplifyAtSwitchLevel(min_poly_zoom, z) == z <= min_poly_zoom

\* MapobjectType.get_mapobject_outlines_within_tile: centroids or polygons
do_simplify(min_poly_zoom, z) == z < min_poly_zoom

\* a filter for which a static type matches whatever its id
attribute_filterStaticAnyType(type_id, is_static, outline_type_id, outline, tpoint, zplane) ==
    \/ is_static
    \/ /\ outline_type_id = type_id
       /\ outline.tpoint = tpoint /\ outline.zplane = zplane

\* MapobjectType.get_mapobject_outlines_within_tile: the part of the filter
\* on the type and on the time point and z-plane of one joined row
attribute_filter(type_id, is_static, outline_type_id, outline, tpoint, zplane) ==
    /\ outline_type_id = type_id
    /\ \/ is_static
       \/ outline.tpoint = tpoint /\ outline.zplane = zplane

\* a query that tests the centroid against the tile when it returns centroids
get_mapobject_outlines_within_tileByCentroid(types, objects, outlines, type_id, x, y, z, tpoint, zplane) ==
    LET tested(i) ==
            IF ~do_simplify(types[type_id].min_poly_zoom, z) THEN outlines[i].geom_poly
            ELSE IF outlines[i].geom_centroid = None THEN None
            ELSE [boxes |-> {Box(outlines[i].geom_centroid[1], outlines[i].geom_centroid[1],
                                 outlines[i].geom_centroid[2], outlines[i].geom_centroid[2])},
                  npoints |-> 1]
        selected == {i \in DOMAIN outlines :
            /\ attribute_filter(type_id,
                   types[objects[outlines[i].mapobject_id].mapobject_type_id].is_static,
                   objects[outlines[i].mapobject_id].mapobject_type_id,
                   outlines[i], tpoint, zplane)
            /\ intersection_filter(tested(i), x, y, z)}
    IN  {[mapobject_id |-> outlines[i].mapobject_id,
          geojson |-> IF do_simplify(types[type_id].min_poly_zoom, z)
                      THEN ST_AsGeoJSON("Point", outlines[i].geom_centroid)
                      ELSE ST_AsGeoJSON("Polygon", outlines[i].geom_poly)]
         : i \in selected}

\* MapobjectType.get_mapobject_outlines_within_tile on the tables types,
\* objects and outlines, for the type with id type_id: the rows returned
get_mapobject_outlines_within_tile(types, objects, outlines, type_id, x, y, z, tpoint, zplane) ==
    LET selected == {i \in DOMAIN outlines :
            /\ outlines[i].mapobject_id \in DOMAIN objects
            /\ objects[outlines[i].mapobject_id].mapobject_type_id \in DOMAIN types
            /\ attribute_filter(type_id,
                   types[objects[outlines[i].mapobject_id].mapobject_type_id].is_static,
                   objects[outlines[i].mapobject_id].mapobject_type_id,
                   outlines[i], tpoint, zplane)
            /\ intersection_filter(outlines[i].geom_poly, x, y, z)}
    IN  {[mapobject_id |-> outlines[i].mapobject_id,
          geojson |-> IF do_simplify(types[type_id].min_poly_zoom, z)
                      THEN ST_AsGeoJSON("Point", outlines[i].geom_centroid)
                      ELSE ST_AsGeoJSON("Polygon", outlines[i].geom_poly)]
         : i \in selected}

\* MapobjectType.calculate_min_poly_zoom: the extent of a tile of level z
tilesize(z) == 256 * 2 ^ (6 - z)

\* MapobjectType.calculate_min_poly_zoom: the box of the ring drawn around the
\* sampled tile (x, y) of level z
sample_tile(x, y, z) ==
    LET x0 == x * tilesize(z)
        y0 == (0 - y) * tilesize(z)
    IN  Box(x0, x0 + tilesize(z), y0 - tilesize(z), y0)

\* the bounding box of a geometry
BBox(geom) ==
    LET b == CHOOSE a \in geom.boxes : TRUE
    IN  Box(CHOOSE v \in {a.minx : a \in geom.boxes} : \A a \in geom.boxes : v <= a.minx,
            CHOOSE v \in {a.maxx : a \in geom.boxes} : \A a \in geom.boxes : v >= a.maxx,
            CHOOSE v \in {a.miny : a \in geom.boxes} : \A a \in geom.boxes : v <= a.miny,
            CHOOSE v \in {a.maxy : a \in geom.boxes} : \A a \in geom.boxes : v >= a.maxy)

\* the comparator intersects of a geometry column (the operator &&): the
\* bounding boxes of the two geometries overlap
intersects(geom, box) == geom # None /\ BoxesIntersect(BBox(geom), box)

RECURSIVE SumOver(_, _)
\* the sum of f over the set ids
SumOver(f, ids) ==
    IF ids = {} THEN 0
    ELSE LET i == CHOOSE j \in ids : TRUE IN f[i] + SumOver(f, ids \ {i})

\* a sum that is 0 over no row
n_points_in_tileZeroOverNoRow(outlines, mapobject_outline_ids, x, y, z) ==
    LET rows == {i \in DOMAIN outlines :
                    /\ i \in mapobject_outline_ids
                    /\ intersects(outlines[i].geom_poly, sample_tile(x, y, z))}
    IN  [isNone |-> FALSE,
         value |-> SumOver([i \in rows |-> outlines[i].geom_poly.npoints], rows)]

\* MapobjectType.calculate_min_poly_zoom: the sum of ST_NPoints over the
\* outlines listed whose polygon meets the sampled tile, as the record
\* [isNone |-> FALSE, value |-> sum], and None (NULL) over no row
n_points_in_tile(outlines, mapobject_outline_ids, x, y, z) ==
    LET rows == {i \in DOMAIN outlines :
                    /\ i \in mapobject_outline_ids
                    /\ intersects(outlines[i].geom_poly, sample_tile(x, y, z))}
    IN  IF rows = {} THEN None
        ELSE [isNone |-> FALSE,
              value |-> SumOver([i \in rows |-> outlines[i].geom_poly.npoints], rows)]

RECURSIVE n_points_in_tile_samples(_, _, _, _)
\* MapobjectType.calculate_min_poly_zoom: the sums of the tiles drawn at
\* level z that are not None, in the order drawn
n_points_in_tile_samples(outlines, mapobject_outline_ids, rand, z) ==
    IF rand = <<>> THEN <<>>
    ELSE LET n == n_points_in_tile(outlines, mapobject_outline_ids,
                                   Head(rand)[1], Head(rand)[2], z)
             rest == n_points_in_tile_samples(outlines, mapobject_outline_ids, Tail(rand), z)
         IN  IF n # None THEN <<n.value>> \o rest ELSE rest

RECURSIVE SumSeq(_)
SumSeq(q) == IF q = <<>> THEN 0 ELSE Head(q) + SumSeq(Tail(q))

\* MapobjectType.calculate_min_poly_zoom: int(float(sum(samples)) / len(samples))
\* for a level with samples, none of them negative
n_points_in_tile_per_z(samples) == SumSeq(samples) \div Len(samples)

\* MapobjectType.calculate_min_poly_zoom with the tiles drawn at each level
\* given as rand: the samples of each level, the exception raised and the
\* level returned.  A level without samples divides by zero in the loop,
\* which runs from maxzoom_level down; min of no level raises ValueError.
calculate_min_poly_zoom(outlines, maxzoom_level, mapobject_outline_ids, rand, n_points_per_tile_limit) ==
    LET samples == [z \in 0 .. maxzoom_level |->
                       n_points_in_tile_samples(outlines, mapobject_outline_ids, rand[z], z)]
        levels == {z \in 0 .. maxzoom_level :
                      /\ samples[z] # <<>>
                      /\ n_points_in_tile_per_z(samples[z]) <= n_points_per_tile_limit}
    IN  IF \E z \in 0 .. maxzoom_level : samples[z] = <<>>
        THEN [raised |-> "ZeroDivisionError", value |-> None, samples |-> samples]
        ELSE IF levels = {}
        THEN [raised |-> "ValueError", value |-> None, samples |-> samples]
        ELSE [raised |-> "none",
              value |-> CHOOSE z \in levels : \A w \in levels : z <= w,
              samples |-> samples]

\* ------------------------------------------------------------ state machine
\* self: the accumulator (None before construction and after a failed one)
\* pc: "new" before the constructor call, then "live" or "failed"
\* ctor: the constructor call made, with the exception it raised
\* calls: the update calls made so far, each with the exception it raised
\* prev: the accumulator as it was when the last update call was made
\* lastRead: the last property read, with the number of updates made before
\* it and what it returned
VARIABLES self, pc, ctor, calls, prev, lastRead

\* layer: the pyramid the map is shown with, with its highest zoom level
\* mapobject_types, mapobjects, mapobject_outlines: the tables of the store,
\* each a sequence indexed by the primary key
\* lastQuery: the last tile query made, with the tile it used, the number of
\* objects stored when it was made and its rows
\* lastEstimate: the last call of calculate_min_poly_zoom, with the tiles it
\* drew, the number of objects stored when it was made, the samples it took
\* and what it returned
VARIABLES layer, mapobject_types, mapobjects, mapobject_outlines, lastQuery,
          lastEstimate

mapVars == <<layer, mapobject_types, mapobjects, mapobject_outlines, lastQuery,
             lastEstimate>>

statsVars == <<self, pc, ctor, calls, prev, lastRead>>

\* channel_image_files: the table of channel image files, indexed by the
\* primary key, each entry the image that file.get() returns
\* job: the illumination-statistics job, with its batch, its position, its
\* accumulator, the file ids it has read and those it has updated with
\* stats_file: the illumination statistics file of the channel and cycle
VARIABLES channel_image_files, job, stats_file

\* features, feature_values: the tables of one experiment
\* deletion: the call of delete_features_cascade, with its arguments, its
\* position, the ids it selected and the tables as they were when it began
VARIABLES features, feature_values, deletion

jobVars == <<channel_image_files, job, stats_file>>

featureVars == <<features, feature_values, deletion>>

restVars == <<jobVars, featureVars>>

vars == <<statsVars, mapVars, restVars>>

\* no job has run and no feature is stored
RestIdle ==
    /\ channel_image_files = <<>>
    /\ job = None
    /\ stats_file = None
    /\ features = {}
    /\ feature_values = {}
    /\ deletion = None

\* the image_dimensions tried: two pixels, so that an image can differ in
\* shape both ways, broadcastable (one pixel) or not (three pixels)
Shapes == {<<2>>}

ImageLengths == {1, 2, 3}

Images == {[dtype |-> "uint", pixels |-> p] :
              p \in UNION {[1 .. k -> PixelValues] : k \in ImageLengths}}

Init ==
    /\ self = None
    /\ pc = "new"
    /\ ctor = None
    /\ calls = <<>>
    /\ prev = None
    /\ lastRead = None
    /\ layer = None
    /\ mapobject_types = <<>>
    /\ mapobjects = <<>>
    /\ mapobject_outlines = <<>>
    /\ lastQuery = None
    /\ lastEstimate = None
    /\ RestIdle

Create(image_dimensions, decimals, garbage) ==
    /\ pc = "new"
    /\ LET r == init(image_dimensions, decimals, garbage)
       IN  /\ self' = r.self
           /\ pc' = IF r.raised = "none" THEN "live" ELSE "failed"
           /\ ctor' = [image_dimensions |-> image_dimensions, decimals |-> decimals,
                       garbage |-> garbage, raised |-> r.raised]
    /\ UNCHANGED <<calls, prev, lastRead>>
    /\ UNCHANGED mapVars
    /\ UNCHANGED restVars

Update(image, log_transform) ==
    /\ pc = "live"
    /\ Len(calls) < MaxUpdates
    /\ LET r == update(self, image, log_transform)
       IN  /\ self' = r.self
           /\ calls' = Append(calls, [image |-> image, log_transform |-> log_transform,
                                      raised |-> r.raised])
    /\ prev' = self
    /\ UNCHANGED <<pc, ctor, lastRead>>
    /\ UNCHANGED mapVars
    /\ UNCHANGED restVars

Next ==
    \/ \E d \in Shapes, k \in DecimalsTried, g \in GarbageValues : Create(d, k, g)
    \/ \E image \in Images, log_transform \in BOOLEAN : Update(image, log_transform)

Spec == Init /\ [][Next]_vars

\* the properties of the accumulator
Properties == {"var", "mean", "std", "percentiles"}

Read(name) ==
    /\ pc = "live"
    /\ LET r == read(self, name)
       IN  /\ self' = r.self
           /\ lastRead' = [name |-> name, after |-> Len(calls),
                           raised |-> r.raised, value |-> r.value]
    /\ UNCHANGED <<pc, ctor, calls, prev>>
    /\ UNCHANGED mapVars
    /\ UNCHANGED restVars

\* the images of the shape the accumulators are created for
ImagesOfShape == {image \in Images : <<Len(image.pixels)>> \in Shapes}

\* updates and reads interleaved in any order, any number of reads
NextRead ==
    \/ \E d \in Shapes, k \in DecimalsTried, g \in GarbageValues : Create(d, k, g)
    \/ \E image \in ImagesOfShape, log_transform \in BOOLEAN : Update(image, log_transform)
    \/ \E name \in Properties : Read(name)

SpecRead == Init /\ [][NextRead]_vars

\* ------------------------------------------- state machine of the map store
\* no accumulator is in use
StatsIdle ==
    /\ self = None
    /\ pc = "new"
    /\ ctor = None
    /\ calls = <<>>
    /\ prev = None
    /\ lastRead = None

\* Mapobject(mapobject_type_id) followed by MapobjectOutline(mapobject_id,
\* geom_poly, geom_centroid, tpoint, zplane) for the new object
AddMapobject(type_id, geom_poly, geom_centroid, tpoint, zplane) ==
    /\ type_id \in DOMAIN mapobject_types
    /\ mapobjects' = Append(mapobjects, [mapobject_type_id |-> type_id])
    /\ mapobject_outlines' = Append(mapobject_outlines,
           [mapobject_id |-> Len(mapobjects) + 1, geom_poly |-> geom_poly,
            geom_centroid |-> geom_centroid, tpoint |-> tpoint, zplane |-> zplane])
    /\ UNCHANGED <<layer, mapobject_types, lastQuery, lastEstimate>>
    /\ UNCHANGED statsVars
    /\ UNCHANGED restVars

\* a tile query that stores the level it was asked for as the switch level
\* of the type
TileQueryStoresLevel(type_id, x, y, z, tpoint, zplane) ==
    /\ type_id \in DOMAIN mapobject_types
    /\ lastQuery' = [type_id |-> type_id, x |-> x, y |-> y, z |-> z,
                     tpoint |-> tpoint, zplane |-> zplane,
                     tile |-> tile(x, y, z), stored |-> Len(mapobjects),
                     rows |-> get_mapobject_outlines_within_tile(
                                 mapobject_types, mapobjects, mapobject_outlines,
                                 type_id, x, y, z, tpoint, zplane)]
    /\ mapobject_types' = [mapobject_types EXCEPT ![type_id].min_poly_zoom = z]
    /\ UNCHANGED <<layer, mapobjects, mapobject_outlines, lastEstimate>>
    /\ UNCHANGED statsVars
    /\ UNCHANGED restVars

\* mapobject_types[type_id].get_mapobject_outlines_within_tile(x, y, z,
\* tpoint, zplane)
TileQuery(type_id, x, y, z, tpoint, zplane) ==
    /\ type_id \in DOMAIN mapobject_types
    /\ lastQuery' = [type_id |-> type_id, x |-> x, y |-> y, z |-> z,
                     tpoint |-> tpoint, zplane |-> zplane,
                     tile |-> tile(x, y, z), stored |-> Len(mapobjects),
                     rows |-> get_mapobject_outlines_within_tile(
                                 mapobject_types, mapobjects, mapobject_outlines,
                                 type_id, x, y, z, tpoint, zplane)]
    /\ UNCHANGED <<layer, mapobject_types, mapobjects, mapobject_outlines, lastEstimate>>
    /\ UNCHANGED statsVars
    /\ UNCHANGED restVars

\* the zoom levels queried and the highest zoom levels a pyramid is given
Zooms == {max_zoom - 1, max_zoom}

\* the tile addresses of one level
TileIndices == 0 .. MaxTile

\* map coordinates: every half of a tile of the highest level, over the
\* tiles addressed there
Lattice == {128 * k : k \in 0 .. 2 * (MaxTile + 1)}

Extents == {0, 128, 256}

\* the intervals of the lattice up to one tile long
Spans == {s \in Lattice \X Lattice : s[2] - s[1] \in Extents}

\* a polygon that is one box, with its centroid
BoxOutline(minx, maxx, miny, maxy) ==
    [geom_poly |-> [boxes |-> {Box(minx, maxx, miny, maxy)}, npoints |-> 5],
     geom_centroid |-> <<(minx + maxx) \div 2, (miny + maxy) \div 2>>]

\* an L-shaped polygon: an arm to the left of the corner (cx, -cv) and an arm
\* below it, both 128 wide
LOutline(cx, cv) ==
    [geom_poly |-> [boxes |-> {Box(cx - 256, cx + 64, 0 - (cv + 64), 0 - (cv - 64)),
                               Box(cx - 64, cx + 64, 0 - (cv + 256), 0 - (cv - 64))},
                    npoints |-> 7],
     geom_centroid |-> <<cx, 0 - cv>>]

\* the outlines stored when borders are studied: every box on the lattice up
\* to one tile wide and high, segments and points included, and every
\* L-shape with its corner on the lattice, that lies within the lattice
BorderOutlines ==
    {BoxOutline(h[1], h[2], 0 - v[2], 0 - v[1]) : h \in Spans, v \in Spans}
    \cup {LOutline(cx, cv) : cx \in {c \in Lattice : c - 256 \in Lattice /\ c + 128 \in Lattice},
                             cv \in {c \in Lattice : c - 128 \in Lattice /\ c + 256 \in Lattice}}

InitBorder ==
    /\ StatsIdle
    /\ layer \in {[maxzoom |-> m] : m \in Zooms}
    /\ mapobject_types = <<[is_static |-> FALSE, min_poly_zoom |-> max_zoom]>>
    /\ mapobjects = <<>>
    /\ mapobject_outlines = <<>>
    /\ lastQuery = None
    /\ lastEstimate = None
    /\ RestIdle

\* one outline of one type, time point and z-plane, and every tile queried
\* for it at the levels the pyramid has
NextBorder ==
    \/ \E o \in BorderOutlines :
          mapobjects = <<>> /\ AddMapobject(1, o.geom_poly, o.geom_centroid, 0, 0)
    \/ \E x \in TileIndices, y \in TileIndices, z \in Zooms :
          z <= layer.maxzoom /\ TileQuery(1, x, y, z, 0, 0)

SpecBorder == InitBorder /\ [][NextBorder]_vars

\* the outlines stored when the selection by type, time point and z-plane is
\* studied: a box inside tile (1, 1) of the highest level, with and without
\* its polygon
TileOutlines ==
    {BoxOutline(320, 448, 0 - 448, 0 - 320),
     [geom_poly |-> None, geom_centroid |-> <<384, 0 - 384>>]}

\* the time points and z-planes of stored outlines and of queries
Planes == {<<0, 0>>, <<1, 0>>, <<0, 1>>}

\* a box that reaches from tile (1, 1) of the highest level into the two
\* tiles to its right, where its centroid lies
WideOutline == BoxOutline(320, 960, 0 - 448, 0 - 320)

\* the objects stored: the box for type 1 at every time point and z-plane,
\* and at the first of them the box and the outline without polygon for both
\* types and the wide box for type 1
TileObjects ==
    {[type_id |-> 1, outline |-> BoxOutline(320, 448, 0 - 448, 0 - 320), plane |-> p] :
        p \in Planes}
    \cup {[type_id |-> t, outline |-> o, plane |-> <<0, 0>>] :
             t \in {1, 2}, o \in TileOutlines}
    \cup {[type_id |-> 1, outline |-> WideOutline, plane |-> <<0, 0>>]}

\* the tiles queried: the one of each level that holds the box
TilesQueried == {<<1, 1, max_zoom>>, <<0, 0, max_zoom - 1>>}

InitTile ==
    /\ StatsIdle
    /\ layer = [maxzoom |-> max_zoom]
    /\ mapobject_types \in
          {<<[is_static |-> s, min_poly_zoom |-> m],
             [is_static |-> FALSE, min_poly_zoom |-> max_zoom]>> :
              s \in BOOLEAN, m \in Zooms}
    /\ mapobjects = <<>>
    /\ mapobject_outlines = <<>>
    /\ lastQuery = None
    /\ lastEstimate = None
    /\ RestIdle

NextTile ==
    \/ \E o \in TileObjects :
          /\ Len(mapobjects) < MaxMapobjects
          /\ AddMapobject(o.type_id, o.outline.geom_poly, o.outline.geom_centroid,
                          o.plane[1], o.plane[2])
    \/ \E t \in {1, 2}, q \in TilesQueried, p \in Planes :
          TileQuery(t, q[1], q[2], q[3], p[1], p[2])

SpecTile == InitTile /\ [][NextTile]_vars

\* an estimate that stores the level it computed as the switch level of the
\* type
EstimateStoresLevel(type_id, maxzoom_level, mapobject_outline_ids, n_sample, n_points_per_tile_limit, rand) ==
    /\ type_id \in DOMAIN mapobject_types
    /\ LET r == calculate_min_poly_zoom(mapobject_outlines, maxzoom_level,
                    mapobject_outline_ids, rand, n_points_per_tile_limit)
       IN  /\ lastEstimate' = [type_id |-> type_id, maxzoom_level |-> maxzoom_level,
                               mapobject_outline_ids |-> mapobject_outline_ids,
                               n_sample |-> n_sample,
                               n_points_per_tile_limit |-> n_points_per_tile_limit,
                               rand |-> rand, stored |-> Len(mapobjects),
                               tiles |-> [z \in DOMAIN rand |->
                                   [k \in DOMAIN rand[z] |->
                                       sample_tile(rand[z][k][1], rand[z][k][2], z)]],
                               samples |-> r.samples,
                               raised |-> r.raised, value |-> r.value]
           /\ mapobject_types' =
                  IF r.raised = "none"
                  THEN [mapobject_types EXCEPT ![type_id].min_poly_zoom = r.value]
                  ELSE mapobject_types
    /\ UNCHANGED <<layer, mapobjects, mapobject_outlines, lastQuery>>
    /\ UNCHANGED statsVars
    /\ UNCHANGED restVars

\* mapobject_types[type_id].calculate_min_poly_zoom(maxzoom_level,
\* mapobject_outline_ids, n_sample, n_points_per_tile_limit), rand[z] being
\* the n_sample tiles that random.randrange draws at level z
Estimate(type_id, maxzoom_level, mapobject_outline_ids, n_sample, n_points_per_tile_limit, rand) ==
    /\ type_id \in DOMAIN mapobject_types
    /\ DOMAIN rand = 0 .. maxzoom_level
    /\ \A z \in DOMAIN rand :
          /\ Len(rand[z]) = n_sample
          /\ \A k \in 1 .. n_sample :
                rand[z][k][1] \in 0 .. 2 ^ z - 1 /\ rand[z][k][2] \in 0 .. 2 ^ z - 1
    /\ LET r == calculate_min_poly_zoom(mapobject_outlines, maxzoom_level,
                    mapobject_outline_ids, rand, n_points_per_tile_limit)
       IN  lastEstimate' = [type_id |-> type_id, maxzoom_level |-> maxzoom_level,
                            mapobject_outline_ids |-> mapobject_outline_ids,
                            n_sample |-> n_sample,
                            n_points_per_tile_limit |-> n_points_per_tile_limit,
                            rand |-> rand, stored |-> Len(mapobjects),
                            tiles |-> [z \in DOMAIN rand |->
                                [k \in DOMAIN rand[z] |->
                                    sample_tile(rand[z][k][1], rand[z][k][2], z)]],
                            samples |-> r.samples,
                            raised |-> r.raised, value |-> r.value]
    /\ UNCHANGED <<layer, mapobject_types, mapobjects, mapobject_outlines, lastQuery>>
    /\ UNCHANGED statsVars
    /\ UNCHANGED restVars

\* the highest levels of the pyramids estimated
EstimateLevels == {0, 1}

\* the outlines stored when the estimator is studied: a box of 5 or 6
\* vertices inside tile (0, 0) or tile (1, 1) of level 1
EstimateOutlines ==
    {[BoxOutline(q * tilesize(1) + 2048, q * tilesize(1) + 4096,
                 0 - (q * tilesize(1) + 4096), 0 - (q * tilesize(1) + 2048))
         EXCEPT !.geom_poly.npoints = n] : q \in {0, 1}, n \in {5, 6}}

\* the numbers of tiles sampled per level and the limits asked for
SampleCounts == {1, 2}

PointLimits == {5, 11}

\* the tiles that random.randrange can draw at level z
LevelDraws(z, n_sample) ==
    [1 .. n_sample -> (0 .. 2 ^ z - 1) \X (0 .. 2 ^ z - 1)]

RECURSIVE Draws(_, _)
\* the tiles that can be drawn at the levels 0 .. maxzoom_level
Draws(maxzoom_level, n_sample) ==
    IF maxzoom_level = 0
    THEN {[z \in {0} |-> d] : d \in LevelDraws(0, n_sample)}
    ELSE {[z \in 0 .. maxzoom_level |-> IF z = maxzoom_level THEN d ELSE f[z]] :
             f \in Draws(maxzoom_level - 1, n_sample),
             d \in LevelDraws(maxzoom_level, n_sample)}

InitEstimate ==
    /\ StatsIdle
    /\ layer \in {[maxzoom |-> m] : m \in EstimateLevels}
    /\ mapobject_types = <<[is_static |-> FALSE, min_poly_zoom |-> 0]>>
    /\ mapobjects = <<>>
    /\ mapobject_outlines = <<>>
    /\ lastQuery = None
    /\ lastEstimate = None
    /\ RestIdle

\* objects are stored, and the switch level of their type is estimated once,
\* for the first k outlines stored
NextEstimate ==
    \/ \E o \in EstimateOutlines :
          /\ Len(mapobjects) < MaxMapobjects
          /\ AddMapobject(1, o.geom_poly, o.geom_centroid, 0, 0)
    \/ \E k \in 0 .. Len(mapobject_outlines), n_sample \in SampleCounts,
          limit \in PointLimits :
          \E rand \in Draws(layer.maxzoom, n_sample) :
              /\ lastEstimate = None
              /\ Estimate(1, layer.maxzoom, 1 .. k, n_sample, limit, rand)

SpecEstimate == InitEstimate /\ [][NextEstimate]_vars

\* ------------------------------- state machine of the illumination job
\* the most file ids a batch holds
MaxBatch == 3

\* no map object is stored
MapIdle ==
    /\ layer = None
    /\ mapobject_types = <<>>
    /\ mapobjects = <<>>
    /\ mapobject_outlines = <<>>
    /\ lastQuery = None
    /\ lastEstimate = None

\* the accumulator with the image read for its dimensions already fed to it
OnlineStatisticsFedFirst(img, garbage) ==
    update(init(<<Len(img.pixels)>>, 3, garbage).self, img, TRUE)

\* line 138: stats = OnlineStatistics(image_dimensions=img.dimensions)
OnlineStatistics(img, garbage) == init(<<Len(img.pixels)>>, 3, garbage)

\* IllumstatsContainer(stats.mean, stats.std, stats.percentiles)
IllumstatsContainer(stats) ==
    [raised |-> percentiles(stats).raised,
     mean |-> mean(stats), std |-> std(stats), percentiles |-> percentiles(stats).dict]

\* run_job, lines 131-138: the first file of the batch is read and the
\* accumulator is created for its dimensions; file_ids[0] raises IndexError
\* for an empty batch
run_job_open(batch, garbage) ==
    /\ job = None
    /\ \A k \in DOMAIN batch.channel_image_files_ids :
          batch.channel_image_files_ids[k] \in DOMAIN channel_image_files
    /\ job' = IF batch.channel_image_files_ids = <<>>
              THEN [batch |-> batch, pc |-> "failed", raised |-> "IndexError",
                    stats |-> None, reads |-> <<>>, updated |-> <<>>]
              ELSE LET fid == batch.channel_image_files_ids[1]
                       img == channel_image_files[fid]
                       r == OnlineStatistics(img, garbage)
                   IN  [batch |-> batch,
                        pc |-> IF r.raised = "none" THEN "loop" ELSE "failed",
                        raised |-> r.raised,
                        stats |-> r.self, reads |-> <<fid>>, updated |-> <<>>]
    /\ UNCHANGED <<channel_image_files, stats_file>>
    /\ UNCHANGED <<statsVars, mapVars, featureVars>>

\* run_job, lines 139-144: one turn of the loop, for the next file id of the
\* batch
run_job_update ==
    /\ job # None
    /\ job.pc = "loop"
    /\ Len(job.reads) - 1 < Len(job.batch.channel_image_files_ids)
    /\ LET fid == job.batch.channel_image_files_ids[Len(job.reads)]
           img == channel_image_files[fid]
           r == update(job.stats, img, TRUE)
       IN  job' = [job EXCEPT
                      !.reads = Append(@, fid),
                      !.stats = r.self,
                      !.raised = r.raised,
                      !.pc = IF r.raised = "none" THEN "loop" ELSE "failed",
                      !.updated = IF r.raised = "none" THEN Append(@, fid) ELSE @]
    /\ UNCHANGED <<channel_image_files, stats_file>>
    /\ UNCHANGED <<statsVars, mapVars, featureVars>>

\* run_job, lines 146-155: after the loop the statistics are put into the
\* file of the channel and cycle
run_job_put ==
    /\ job # None
    /\ job.pc = "loop"
    /\ Len(job.reads) - 1 = Len(job.batch.channel_image_files_ids)
    /\ LET illumstats == IllumstatsContainer(job.stats)
       IN  /\ job' = [job EXCEPT
                         !.raised = illumstats.raised,
                         !.pc = IF illumstats.raised = "none" THEN "done" ELSE "failed"]
           /\ stats_file' =
                  IF illumstats.raised = "none"
                  THEN [channel_id |-> job.batch.channel_id,
                        cycle_id |-> job.batch.cycle_id,
                        after |-> Len(job.updated),
                        mean |-> illumstats.mean, std |-> illumstats.std,
                        percentiles |-> illumstats.percentiles]
                  ELSE stats_file
    /\ UNCHANGED channel_image_files
    /\ UNCHANGED <<statsVars, mapVars, featureVars>>

\* the channel image files stored: two images of two pixels and one of three
StoredImageFiles ==
    <<[dtype |-> "uint", pixels |-> <<10, 10>>],
      [dtype |-> "uint", pixels |-> <<0, 10>>],
      [dtype |-> "uint", pixels |-> <<10, 0, 10>>]>>

\* the job descriptions run: up to MaxBatch file ids in any order, with
\* repetitions
Batches ==
    {[channel_image_files_ids |-> ids, channel_id |-> 1, cycle_id |-> 1] :
        ids \in UNION {[1 .. k -> DOMAIN StoredImageFiles] : k \in 0 .. MaxBatch}}

InitJob ==
    /\ StatsIdle
    /\ MapIdle
    /\ channel_image_files = StoredImageFiles
    /\ job = None
    /\ stats_file = None
    /\ features = {}
    /\ feature_values = {}
    /\ deletion = None

NextJob ==
    \/ \E batch \in Batches, garbage \in GarbageValues : run_job_open(batch, garbage)
    \/ run_job_update
    \/ run_job_put

SpecJob == InitJob /\ [][NextJob]_vars

\* --------------------------------- state machine of the feature tables
\* the most features and the most feature values stored
MaxFeatures == 2

MaxFeatureValues == 2

\* the values of cfg.db_driver
Drivers == {"citus", "postgresql"}

\* Feature(name, mapobject_type_id, is_aggregate), added to the session
AddFeature(is_aggregate) ==
    /\ deletion = None
    /\ Cardinality(features) < MaxFeatures
    /\ features' = features \cup
                      {[id |-> Cardinality(features) + 1, is_aggregate |-> is_aggregate]}
    /\ UNCHANGED <<feature_values, deletion>>
    /\ UNCHANGED <<statsVars, mapVars, jobVars>>

\* FeatureValue(feature_id, mapobject_id, value, tpoint), added to the
\* session; feature_id is a plain integer column, not a foreign key
AddFeatureValue(feature_id) ==
    /\ deletion = None
    /\ Cardinality(feature_values) < MaxFeatureValues
    /\ feature_values' = feature_values \cup
           {[id |-> Cardinality(feature_values) + 1, feature_id |-> feature_id]}
    /\ UNCHANGED <<features, deletion>>
    /\ UNCHANGED <<statsVars, mapVars, jobVars>>

\* the two DELETE statements in the order features, feature_values
delete_statementFeaturesFirst(k) == IF k = 1 THEN "features" ELSE "feature_values"

\* lines 210-233: the table the k-th DELETE statement of
\* delete_features_cascade acts on
delete_statement(k) == IF k = 1 THEN "feature_values" ELSE "features"

\* delete_features_cascade, lines 200-209: the ids of the features with the
\* flag asked for are selected
delete_features_cascade_select(experiment_id, is_aggregate, db_driver) ==
    /\ deletion = None
    /\ deletion' = [experiment_id |-> experiment_id, is_aggregate |-> is_aggregate,
                    db_driver |-> db_driver, pc |-> 1,
                    feature_ids |-> {f.id : f \in {g \in features :
                                                      g.is_aggregate = is_aggregate}},
                    before |-> [features |-> features,
                                feature_values |-> feature_values]]
    /\ UNCHANGED <<features, feature_values>>
    /\ UNCHANGED <<statsVars, mapVars, jobVars>>

\* delete_features_cascade, lines 210-233: the next DELETE statement, the
\* one on feature_values worded for either driver with the same condition
delete_features_cascade_delete ==
    /\ deletion # None
    /\ deletion.pc \in {1, 2}
    /\ IF delete_statement(deletion.pc) = "feature_values"
       THEN /\ feature_values' = {v \in feature_values :
                                     v.feature_id \notin deletion.feature_ids}
            /\ UNCHANGED features
       ELSE /\ features' = {f \in features : f.id \notin deletion.feature_ids}
            /\ UNCHANGED feature_values
    /\ deletion' = [deletion EXCEPT !.pc = @ + 1]
    /\ UNCHANGED <<statsVars, mapVars, jobVars>>

InitFeatures ==
    /\ StatsIdle
    /\ MapIdle
    /\ channel_image_files = <<>>
    /\ job = None
    /\ stats_file = None
    /\ features = {}
    /\ feature_values = {}
    /\ deletion = None

\* features and values are stored, values also for feature ids that no
\* feature has, and then the features of one flag are deleted
NextFeatures ==
    \/ \E is_aggregate \in BOOLEAN : AddFeature(is_aggregate)
    \/ \E feature_id \in 1 .. MaxFeatures + 1 : AddFeatureValue(feature_id)
    \/ \E is_aggregate \in BOOLEAN, db_driver \in Drivers :
          delete_features_cascade_select(1, is_aggregate, db_driver)
    \/ delete_features_cascade_delete

SpecFeatures == InitFeatures /\ [][NextFeatures]_vars

\* ------------------------------------------------- the calls made so far
Live == pc = "live"

NumCalls == Len(calls)

LastCall == calls[NumCalls]

\* the length of the arrays the accumulator was created for
Dim == self.image_dimensions[1]

\* every update call so far had an image of the accumulator's shape
AllSameShape == \A k \in 1 .. NumCalls : Len(calls[k].image.pixels) = Dim

AllWithoutLog == \A k \in 1 .. NumCalls : ~calls[k].log_transform

\* every call with log_transform had strictly positive pixels
AllLogsPositive ==
    \A k \in 1 .. NumCalls :
        calls[k].log_transform =>
            \A j \in DOMAIN calls[k].image.pixels : calls[k].image.pixels[j] > 0

\* the value call k accumulates for pixel j: the pixel, or its log10
Fed(k, j) ==
    IF calls[k].log_transform
    THEN Log10(Float(calls[k].image.pixels[j]))
    ELSE Float(calls[k].image.pixels[j])

\* two-pass reference: the sum of pixel j over the first k calls, their mean
\* and the sum of the squared deviations from that mean
RECURSIVE SumFed(_, _)
SumFed(k, j) == IF k = 0 THEN Float(0) ELSE FAdd(SumFed(k - 1, j), Fed(k, j))

MeanFed(j) == FDivInt(SumFed(NumCalls, j), NumCalls)

RECURSIVE SumSqDev(_, _)
SumSqDev(k, j) ==
    IF k = 0 THEN Float(0)
    ELSE LET d == FSub(Fed(k, j), MeanFed(j))
         IN  FAdd(SumSqDev(k - 1, j), FMul(d, d))

\* ------------------------------------------------------------------ claims
\* C1: after a non-empty sequence of update calls with images of the
\* accumulator's shape and log_transform = false, every element of mean is
\* the arithmetic mean of that pixel over all images fed so far.
C1_MeanIsArithmeticMean ==
    (Live /\ NumCalls >= 1 /\ AllSameShape /\ AllWithoutLog) =>
        /\ Len(mean(self)) = Dim
        /\ \A j \in 1 .. Dim : mean(self)[j] = MeanFed(j)

\* C1 witness: two images fed that differ in a pixel, whose mean lies
\* strictly between the two values
C1_Witness ==
    /\ Live /\ NumCalls = 2 /\ AllSameShape /\ AllWithoutLog
    /\ \E j \in 1 .. Dim :
          /\ calls[1].image.pixels[j] # calls[2].image.pixels[j]
          /\ mean(self)[j] # Float(calls[1].image.pixels[j])
          /\ mean(self)[j] # Float(calls[2].image.pixels[j])

C3_MismatchedShapeRejected ==
    Live =>
        \A k \in 1 .. NumCalls :
            Len(calls[k].image.pixels) # Dim => calls[k].raised # "none"

\* C4: whenever an update call fails, the accumulator after the call is
\* identical to the accumulator before it (n, mean, M2, percentile sums).
C4_FailedUpdateLeavesState ==
    (Live /\ NumCalls >= 1 /\ LastCall.raised # "none") => self = prev

\* C5 as claimed: with n < 2 every element of var is not-a-number, with
\* n >= 2 every element is finite.
C5_VarianceNaNThenFinite ==
    Live =>
        /\ self.n < 2 => \A j \in DOMAIN var(self) : var(self)[j] = NaN
        /\ self.n >= 2 => \A j \in DOMAIN var(self) : IsFinite(var(self)[j])

\* C5 amended: with n < 2 every element of var is not-a-number (one element
\* per pixel of image_dimensions); with n >= 2 every element is finite
\* provided every update made with log_transform had strictly positive pixels.
C5_VarianceNaNThenFiniteUnlessLogOfNonPositive ==
    Live =>
        /\ self.n < 2 =>
              /\ Len(var(self)) = Dim
              /\ \A j \in DOMAIN var(self) : var(self)[j] = NaN
        /\ (self.n >= 2 /\ AllLogsPositive) =>
              \A j \in DOMAIN var(self) : IsFinite(var(self)[j])

\* C5 witness: var was not-a-number after the first update and is finite,
\* and not zero, after a second update made with log_transform of positive
\* pixels
C5_Witness ==
    /\ Live /\ NumCalls = 2 /\ self.n = 2 /\ prev.n = 1
    /\ LastCall.log_transform /\ AllLogsPositive
    /\ \A j \in DOMAIN var(prev) : var(prev)[j] = NaN
    /\ \A j \in DOMAIN var(self) : IsFinite(var(self)[j])
    /\ \E j \in DOMAIN var(self) : var(self)[j][1] # 0

\* C6: the constructor succeeds exactly when 0 <= decimals <= 3 and otherwise
\* raises ValueError; a new accumulator has n = 0, mean and M2 all zero with
\* shape image_dimensions, and a probability grid of 10^(decimals+2) points
\* whose first point is 0 and whose last point is 100.
C6_Create ==
    pc # "new" =>
        /\ (ctor.raised = "none") <=> (0 <= ctor.decimals /\ ctor.decimals <= 3)
        /\ ctor.raised # "none" => (ctor.raised = "ValueError" /\ pc = "failed" /\ self = None)
        /\ ctor.raised = "none" =>
              /\ Live
              /\ self.image_dimensions = ctor.image_dimensions
              /\ self._q = Pow10(ctor.decimals + 2)
              /\ DOMAIN self._percentiles = GridIdx(Pow10(ctor.decimals + 2))
              /\ Q(self, 0) = Float(0)
              /\ Q(self, self._q - 1) = Float(100)
              /\ NumCalls = 0 =>
                    /\ self.n = 0
                    /\ self._mean = [j \in 1 .. ctor.image_dimensions[1] |-> Float(0)]
                    /\ self._M2 = [j \in 1 .. ctor.image_dimensions[1] |-> Float(0)]

\* C6 witness: a new accumulator created with the largest valid decimals
C6_Witness == Live /\ NumCalls = 0 /\ ctor.decimals = 3 /\ self._q = 100000

\* the same constant-valued image of value v, of the accumulator's shape, fed
\* in every call so far
ConstantImageFed(v) ==
    /\ NumCalls >= 1
    /\ AllSameShape
    /\ \A k \in 1 .. NumCalls :
          /\ calls[k].image = calls[1].image
          /\ \A j \in DOMAIN calls[k].image.pixels : calls[k].image.pixels[j] = v

\* C7: from a new accumulator, feeding the same constant-valued image of
\* value v any number >= 1 of times makes percentiles map every key to v.
C7_ConstantImagePercentiles ==
    Live =>
        \A v \in PixelValues :
            ConstantImageFed(v) =>
                /\ percentiles(self).raised = "none"
                /\ \A i \in DOMAIN self._percentiles :
                      percentiles(self).dict[i].value = v

\* x rounded to the nearest integer, a half away from zero
Nearest(x) == Round(x, 0)[1]

\* C8: for every grid index i and n >= 1, the value percentiles reports is
\* the running percentile sum at i divided by n and rounded to the nearest
\* integer.
C8_PercentilesRounded ==
    (Live /\ self.n >= 1 /\ percentiles(self).raised = "none") =>
        \A i \in DOMAIN self._percentiles :
            percentiles(self).dict[i].value = Nearest(FDivInt(self._percentiles[i], self.n))

\* the image whose pixels are the log10 of the pixels of image
Log10Image(image) ==
    [dtype |-> "float", pixels |-> [j \in DOMAIN image.pixels |-> Log10(Float(image.pixels[j]))]]

LastCallPositive ==
    \A j \in DOMAIN LastCall.image.pixels : LastCall.image.pixels[j] > 0

\* C9: update(image, log_transform = true) with strictly positive pixels
\* leaves the accumulator with the same n, mean and M2 as
\* update(log10(image), log_transform = false) made in the same prior state.
C9_LogTransformIsLogThenUpdate ==
    (Live /\ NumCalls >= 1 /\ LastCall.log_transform /\ LastCallPositive) =>
        LET r == update(prev, Log10Image(LastCall.image), FALSE)
        IN  /\ r.raised = LastCall.raised
            /\ r.self.n = self.n
            /\ r.self._mean = self._mean
            /\ r.self._M2 = self._M2

\* C9 witness: a second update, with log_transform, of an image with a pixel
\* other than 1, accepted
C9_Witness ==
    /\ Live /\ NumCalls = 2 /\ LastCall.log_transform /\ LastCallPositive
    /\ LastCall.raised = "none"
    /\ \E j \in DOMAIN LastCall.image.pixels : LastCall.image.pixels[j] = 10
    /\ self._mean # prev._mean
    /\ \E j \in DOMAIN self._M2 : self._M2[j][1] # 0

\* C10: what an update call adds to the running percentile sums is the same
\* for the same image and prior state whether log_transform is true or false.
C10_PercentilesIgnoreLogTransform ==
    (Live /\ NumCalls >= 1) =>
        self._percentiles =
            update(prev, LastCall.image, ~LastCall.log_transform).self._percentiles

\* C10 witness: an update with log_transform that added to the percentile sums
C10_Witness ==
    /\ Live /\ NumCalls >= 1 /\ LastCall.log_transform
    /\ \E i \in DOMAIN self._percentiles : self._percentiles[i] # prev._percentiles[i]
    /\ \E j \in DOMAIN LastCall.image.pixels : LastCall.image.pixels[j] = 10

\* the accumulator that the constructor call and the first k update calls
\* alone produce
RECURSIVE Replay(_)
Replay(k) ==
    IF k = 0 THEN init(ctor.image_dimensions, ctor.decimals, ctor.garbage).self
    ELSE update(Replay(k - 1), calls[k].image, calls[k].log_transform).self

\* C11: reading mean, var, std or percentiles, any number of times and in any
\* order between updates, leaves n, mean, M2 and the running percentile sums
\* unchanged: the accumulator is always the one the updates alone produce, and
\* the last read returned what it returns on the accumulator the updates
\* before it alone produce.
C11_ReadsArePure ==
    Live =>
        /\ self = Replay(NumCalls)
        /\ lastRead # None =>
              LET r == read(Replay(lastRead.after), lastRead.name)
              IN  lastRead.raised = r.raised /\ lastRead.value = r.value

\* C11 witness: percentiles read after the first update, then a second update
\* made
C11_Witness ==
    /\ Live /\ NumCalls = 2 /\ lastRead # None
    /\ lastRead.name = "percentiles" /\ lastRead.after = 1 /\ lastRead.raised = "none"
    /\ self # prev

\* ------------------------------------------------ the tile queries made
Queried == lastQuery # None

\* the rows of the query of lastQuery, had it asked for tile (x, y)
RowsAt(x, y) ==
    get_mapobject_outlines_within_tile(mapobject_types, mapobjects, mapobject_outlines,
        lastQuery.type_id, x, y, lastQuery.z, lastQuery.tpoint, lastQuery.zplane)

\* outline i is among the rows
ReturnedIn(rows, i) ==
    \E row \in rows : row.mapobject_id = mapobject_outlines[i].mapobject_id

\* outline i is of the type, time point and z-plane of lastQuery
Matches(i) ==
    /\ mapobjects[mapobject_outlines[i].mapobject_id].mapobject_type_id = lastQuery.type_id
    /\ mapobject_outlines[i].tpoint = lastQuery.tpoint
    /\ mapobject_outlines[i].zplane = lastQuery.zplane

Max(a, b) == IF a >= b THEN a ELSE b

Min(a, b) == IF a <= b THEN a ELSE b

\* what two boxes have in common, for two tiles side by side or one above the
\* other their shared edge
Common(a, b) ==
    Box(Max(a.minx, b.minx), Min(a.maxx, b.maxx), Max(a.miny, b.miny), Min(a.maxy, b.maxy))

\* the geometry lies within box e
LiesOn(geom, e) ==
    /\ geom # None
    /\ \A a \in geom.boxes :
          a.minx >= e.minx /\ a.maxx <= e.maxx /\ a.miny >= e.miny /\ a.maxy <= e.maxy

\* the four edges of a box
Edges(t) ==
    {Box(t.minx, t.minx, t.miny, t.maxy), Box(t.maxx, t.maxx, t.miny, t.maxy),
     Box(t.minx, t.maxx, t.miny, t.miny), Box(t.minx, t.maxx, t.maxy, t.maxy)}

\* the tiles of a level that the stored outlines can reach
LevelTiles == (0 .. MaxTile + 1) \X (0 .. MaxTile + 1)

\* C12: for every column, row, configured maxZoom and zoomLevel in
\* 0..maxZoom, the tile the query uses has side 256 * 2^(maxZoom - zoomLevel)
\* and corners minX = column*size, maxX = column*size + size,
\* minY = -row*size - size, maxY = -row*size, whatever the configured maxZoom.
C12_TileFollowsConfiguredMaxZoom ==
    (Queried /\ lastQuery.z \in 0 .. layer.maxzoom) =>
        LET s == 256 * 2 ^ (layer.maxzoom - lastQuery.z)
        IN  lastQuery.tile = Box(lastQuery.x * s, lastQuery.x * s + s,
                                 (0 - lastQuery.y * s) - s, 0 - lastQuery.y * s)

\* C13: of two tiles side by side, neither at column 0 or row 0, every
\* outline of the queried type that lies exactly on their shared edge is
\* returned by the left tile and not by the right one.
C13_OnSharedEdgeReturnedByLeftTile ==
    (Queried /\ lastQuery.x >= 1 /\ lastQuery.y >= 1) =>
        \A i \in DOMAIN mapobject_outlines :
            (/\ Matches(i)
             /\ LiesOn(mapobject_outlines[i].geom_poly,
                       Common(lastQuery.tile,
                              tile(lastQuery.x + 1, lastQuery.y, lastQuery.z))))
            => /\ ReturnedIn(lastQuery.rows, i)
               /\ ~ReturnedIn(RowsAt(lastQuery.x + 1, lastQuery.y), i)

\* C14: of two tiles that share an edge, side by side or one above the other,
\* neither at column 0 or row 0, no outline that intersects the shared edge is
\* returned by both for the same type, time point and z-plane.
C14_SharedEdgeNeverReturnedTwice ==
    (Queried /\ lastQuery.x >= 1 /\ lastQuery.y >= 1) =>
        \A n \in {<<lastQuery.x + 1, lastQuery.y>>, <<lastQuery.x, lastQuery.y + 1>>} :
            \A i \in DOMAIN mapobject_outlines :
                ST_Intersects(mapobject_outlines[i].geom_poly,
                              Common(lastQuery.tile, tile(n[1], n[2], lastQuery.z)))
                => ~(ReturnedIn(lastQuery.rows, i) /\ ReturnedIn(RowsAt(n[1], n[2]), i))

\* C14 witness: a tile off column 0 and row 0 returned an outline that
\* reaches the edge it shares with the tile to its right
C14_Witness ==
    /\ Queried /\ lastQuery.x >= 1 /\ lastQuery.y >= 1
    /\ \E i \in DOMAIN mapobject_outlines :
          /\ ST_Intersects(mapobject_outlines[i].geom_poly,
                Common(lastQuery.tile, tile(lastQuery.x + 1, lastQuery.y, lastQuery.z)))
          /\ ReturnedIn(lastQuery.rows, i)
          /\ ST_Intersects(mapobject_outlines[i].geom_poly,
                           tile(lastQuery.x + 1, lastQuery.y, lastQuery.z))

\* the borders whose exclusion the query for tile (x, y, z) skips
Skipped(x, y, z) ==
    (IF x = 0 THEN {left_border(x, y, z)} ELSE {})
    \cup (IF y = 0 THEN {top_border(x, y, z)} ELSE {})

\* C15: a border whose exclusion is skipped (the left border of a column-0
\* tile, the top border of a row-0 tile, as the query computes them) is an
\* edge of no other tile of the level, and no outline on it that the tile
\* returns is returned by another tile.
C15_SkippedBordersAreOuter ==
    Queried =>
        \A b \in Skipped(lastQuery.x, lastQuery.y, lastQuery.z) :
            \A t \in LevelTiles \ {<<lastQuery.x, lastQuery.y>>} :
                /\ b \notin Edges(tile(t[1], t[2], lastQuery.z))
                /\ \A i \in DOMAIN mapobject_outlines :
                      (ST_Intersects(mapobject_outlines[i].geom_poly, b)
                       /\ ReturnedIn(lastQuery.rows, i))
                      => ~ReturnedIn(RowsAt(t[1], t[2]), i)

\* the tiles of the level of lastQuery that the polygon of outline i touches
Touched(i) ==
    {t \in LevelTiles :
        ST_Intersects(mapobject_outlines[i].geom_poly, tile(t[1], t[2], lastQuery.z))}

\* C16: at a fixed level, type, time point and z-plane, every outline that
\* crosses a shared tile edge, all tiles it intersects having column >= 1 and
\* row >= 1, is returned by exactly one tile query of the level.
C16_ExactlyOneTileReturns ==
    Queried =>
        \A i \in DOMAIN mapobject_outlines :
            (/\ Matches(i)
             /\ Cardinality(Touched(i)) >= 2
             /\ \A t \in Touched(i) : t[1] >= 1 /\ t[2] >= 1)
            => Cardinality({t \in LevelTiles : ReturnedIn(RowsAt(t[1], t[2]), i)}) = 1

\* the stored outlines that a returned row may come from
OutlinesOf(row) ==
    {i \in DOMAIN mapobject_outlines : mapobject_outlines[i].mapobject_id = row.mapobject_id}

\* the object type lastQuery asked for
QueriedType == mapobject_types[lastQuery.type_id]

\* C17: the geometry returned for each outline is its centroid when
\* zoomLevel < minPolyZoom of the object type and its polygon when
\* zoomLevel >= minPolyZoom, in particular at zoomLevel = minPolyZoom.
C17_CentroidBelowMinPolyZoom ==
    Queried =>
        \A row \in lastQuery.rows :
            \E i \in OutlinesOf(row) :
                /\ lastQuery.z < QueriedType.min_poly_zoom =>
                      row.geojson = [type |-> "Point",
                                     coordinates |-> mapobject_outlines[i].geom_centroid]
                /\ lastQuery.z >= QueriedType.min_poly_zoom =>
                      row.geojson = [type |-> "Polygon",
                                     coordinates |-> mapobject_outlines[i].geom_poly.boxes]

\* C17 witness: a query at the switch level of its type returned a polygon
C17_Witness ==
    /\ Queried /\ lastQuery.z = QueriedType.min_poly_zoom
    /\ \E row \in lastQuery.rows : row.geojson.type = "Polygon"

\* C18: a tile query returns an outline only if it belongs to an object of the
\* queried type and, when that type is not static, its time point and z-plane
\* equal the requested ones; when the type is static the returned set is the
\* same for every requested time point and z-plane (asked of the same store).
C18_SelectsTypeAndPlane ==
    Queried =>
        /\ \A row \in lastQuery.rows :
              \E i \in OutlinesOf(row) :
                  /\ mapobjects[mapobject_outlines[i].mapobject_id].mapobject_type_id
                         = lastQuery.type_id
                  /\ ~QueriedType.is_static =>
                         /\ mapobject_outlines[i].tpoint = lastQuery.tpoint
                         /\ mapobject_outlines[i].zplane = lastQuery.zplane
        /\ (QueriedType.is_static /\ lastQuery.stored = Len(mapobjects)) =>
              \A p \in Planes :
                  lastQuery.rows = get_mapobject_outlines_within_tile(
                      mapobject_types, mapobjects, mapobject_outlines,
                      lastQuery.type_id, lastQuery.x, lastQuery.y, lastQuery.z, p[1], p[2])

\* C18 witness: a query for a static type returned an outline of another time
\* point, and left out an outline of the other type stored in the same tile
C18_Witness ==
    /\ Queried /\ QueriedType.is_static /\ lastQuery.stored = Len(mapobjects)
    /\ \E row \in lastQuery.rows : \E i \in OutlinesOf(row) :
          mapobject_outlines[i].tpoint # lastQuery.tpoint
    /\ \E i \in DOMAIN mapobject_outlines :
          /\ mapobjects[mapobject_outlines[i].mapobject_id].mapobject_type_id # lastQuery.type_id
          /\ mapobject_outlines[i].geom_poly # None
          /\ ~ReturnedIn(lastQuery.rows, i)

\* C19: a tile query changes no stored object type, object or outline, and
\* its rows are those the same query returns on the store it leaves, so
\* repeated and interleaved queries for the same tile address, type, time
\* point and z-plane return the same set; the store changes only in steps
\* that are not queries.
C19_TileQueryReadsOnly ==
    [][/\ lastQuery' # lastQuery =>
            /\ UNCHANGED <<layer, mapobject_types, mapobjects, mapobject_outlines>>
            /\ lastQuery'.rows = get_mapobject_outlines_within_tile(
                   mapobject_types', mapobjects', mapobject_outlines',
                   lastQuery'.type_id, lastQuery'.x, lastQuery'.y, lastQuery'.z,
                   lastQuery'.tpoint, lastQuery'.zplane)
       /\ <<layer, mapobject_types, mapobjects, mapobject_outlines>>'
              # <<layer, mapobject_types, mapobjects, mapobject_outlines>>
            => UNCHANGED lastQuery]_vars

\* C19 witness: a query on a store of two objects has returned one of them
C19_Witness ==
    /\ Queried /\ lastQuery.stored = 2
    /\ Cardinality(lastQuery.rows) = 1

\* ------------------------------------------------------ the estimates made
Estimated == lastEstimate # None

\* the levels of lastEstimate whose average sample, the sum of the samples
\* divided by their number, is at most the limit
QualifyingLevels ==
    {z \in 0 .. lastEstimate.maxzoom_level :
        /\ lastEstimate.samples[z] # <<>>
        /\ SumSeq(lastEstimate.samples[z])
              <= lastEstimate.n_points_per_tile_limit * Len(lastEstimate.samples[z])}

\* C20: given the sums sampled at each level, the estimator returns the
\* smallest z in 0..maxZoomLevel whose average, sum of the non-null sums over
\* their number and not truncated, is <= pointLimitPerTile: no level whose
\* average exceeds the limit is returned and no smaller qualifying level is
\* skipped.
C20_SmallestLevelWithinLimit ==
    (Estimated /\ lastEstimate.raised = "none") =>
        /\ lastEstimate.value \in QualifyingLevels
        /\ \A z \in QualifyingLevels : lastEstimate.value <= z

\* every level of lastEstimate has samples
EveryLevelSampled ==
    \A z \in 0 .. lastEstimate.maxzoom_level : lastEstimate.samples[z] # <<>>

\* C21: when every level in 0..maxZoomLevel has sample data and none has an
\* average vertex count <= pointLimitPerTile, the estimator returns
\* maxZoomLevel.
C21_NoLevelWithinLimitReturnsMaxZoom ==
    (Estimated /\ EveryLevelSampled /\ QualifyingLevels = {}) =>
        /\ lastEstimate.raised = "none"
        /\ lastEstimate.value = lastEstimate.maxzoom_level

\* C22: if at some level, but not at every level, no sampled tile meets an
\* outline, the estimator does not fail and returns the smallest qualifying z
\* among the levels that did yield data.
C22_LevelWithoutDataIsSkipped ==
    (/\ Estimated
     /\ \E z \in 0 .. lastEstimate.maxzoom_level : lastEstimate.samples[z] = <<>>
     /\ QualifyingLevels # {}) =>
        /\ lastEstimate.raised = "none"
        /\ lastEstimate.value \in QualifyingLevels
        /\ \A z \in QualifyingLevels : lastEstimate.value <= z

\* C23: for every maxZoomLevel and level z in 0..maxZoomLevel the boundary of
\* the tile sampled at address (x, y) has side 256 * 2^(maxZoomLevel - z) and
\* corners minX = x*size, maxX = x*size + size, minY = -y*size - size,
\* maxY = -y*size.
C23_SampledTileFollowsMaxZoomLevel ==
    Estimated =>
        \A z \in 0 .. lastEstimate.maxzoom_level :
            \A k \in 1 .. lastEstimate.n_sample :
                LET s == 256 * 2 ^ (lastEstimate.maxzoom_level - z)
                    x == lastEstimate.rand[z][k][1]
                    y == lastEstimate.rand[z][k][2]
                IN  lastEstimate.tiles[z][k] =
                        Box(x * s, x * s + s, (0 - y * s) - s, 0 - y * s)

\* C24: the estimator only reads: on return and on failure the switch level
\* of the object type and every stored object and outline are as before the
\* call; the level computed is delivered only as the value returned.
C24_EstimateReadsOnly ==
    [][lastEstimate' # lastEstimate =>
           UNCHANGED <<layer, mapobject_types, mapobjects, mapobject_outlines>>]_vars

\* C24 witness: an estimate has returned a level that is not the switch level
\* stored for the type
C24_Witness ==
    /\ Estimated /\ lastEstimate.raised = "none"
    /\ lastEstimate.value # mapobject_types[lastEstimate.type_id].min_poly_zoom
    /\ lastEstimate.stored = Len(mapobjects)

\* the vertices of the outlines listed for lastEstimate that meet the box
PointsIn(box) ==
    LET hit == {i \in DOMAIN mapobject_outlines :
                   /\ i \in lastEstimate.mapobject_outline_ids
                   /\ ST_Intersects(mapobject_outlines[i].geom_poly, box)}
    IN  [hit |-> hit,
         sum |-> SumOver([i \in hit |-> mapobject_outlines[i].geom_poly.npoints], hit)]

RECURSIVE SumsOfMetTiles(_)
\* the sums of those tiles of the sequence that meet an outline, in order
SumsOfMetTiles(tiles) ==
    IF tiles = <<>> THEN <<>>
    ELSE IF PointsIn(Head(tiles)).hit = {} THEN SumsOfMetTiles(Tail(tiles))
    ELSE <<PointsIn(Head(tiles)).sum>> \o SumsOfMetTiles(Tail(tiles))

Fresh == Queried /\ lastQuery.stored = Len(mapobjects)

\* the segment x = minX from maxY to minY and the segment y = minY from minX
\* to maxX of a box
LeftSegment(t) == Box(t.minx, t.minx, t.miny, t.maxy)

MinYSegment(t) == Box(t.minx, t.maxx, t.miny, t.miny)

\* C25: the tile query requires that the polygon does not intersect the left
\* border segment (x = minX, from maxY to minY) exactly when column # 0, and
\* does not intersect the top border segment (y = minY, from minX to maxX)
\* exactly when row # 0; for tile (0, 0) intersection with the tile polygon is
\* the only spatial condition.
C25_BordersExcludedOffColumnAndRowZero ==
    Fresh =>
        \A i \in DOMAIN mapobject_outlines :
            Matches(i) =>
                (ReturnedIn(lastQuery.rows, i) <=>
                    /\ ST_Intersects(mapobject_outlines[i].geom_poly, lastQuery.tile)
                    /\ lastQuery.x # 0 =>
                          ~ST_Intersects(mapobject_outlines[i].geom_poly,
                                         LeftSegment(lastQuery.tile))
                    /\ lastQuery.y # 0 =>
                          ~ST_Intersects(mapobject_outlines[i].geom_poly,
                                         MinYSegment(lastQuery.tile)))

\* C25 witness: a tile of column 0 off row 0 returned an outline that reaches
\* its left border but not its top border
C25_Witness ==
    /\ Fresh /\ lastQuery.x = 0 /\ lastQuery.y # 0
    /\ \E i \in DOMAIN mapobject_outlines :
          /\ ReturnedIn(lastQuery.rows, i)
          /\ ST_Intersects(mapobject_outlines[i].geom_poly, LeftSegment(lastQuery.tile))

\* C27: at every level, every outline of the queried type, time point and
\* z-plane whose polygon intersects at least one tile of the level is
\* returned by at least one tile query of the level.
C27_NoOutlineDisappears ==
    Queried =>
        \A i \in DOMAIN mapobject_outlines :
            (Matches(i) /\ Touched(i) # {}) =>
                \E t \in LevelTiles : ReturnedIn(RowsAt(t[1], t[2]), i)

\* C27 witness: a tile returned an outline that reaches four tiles or more,
\* the other tiles excluding it
C27_Witness ==
    /\ Fresh
    /\ \E i \in DOMAIN mapobject_outlines :
          /\ ReturnedIn(lastQuery.rows, i)
          /\ Cardinality(Touched(i)) >= 4
          /\ \A t \in LevelTiles \ {<<lastQuery.x, lastQuery.y>>} :
                ~ReturnedIn(RowsAt(t[1], t[2]), i)

\* the object ids of a set of rows
Ids(rows) == {row.mapobject_id : row \in rows}

\* the point lies in the box
PointIn(p, t) == t.minx <= p[1] /\ p[1] <= t.maxx /\ t.miny <= p[2] /\ p[2] <= t.maxy

\* C28: for a fixed tile address, time point and z-plane the set of object
\* ids a tile query returns does not depend on the switch level of the type:
\* the polygon is tested against the tile also when the centroid is returned,
\* so a returned centroid may lie outside the tile, and an outline without a
\* polygon is never returned.
C28_SelectionIgnoresMinPolyZoom ==
    Fresh =>
        /\ \A m \in Zooms :
              Ids(lastQuery.rows) = Ids(get_mapobject_outlines_within_tile(
                  [mapobject_types EXCEPT ![lastQuery.type_id].min_poly_zoom = m],
                  mapobjects, mapobject_outlines, lastQuery.type_id,
                  lastQuery.x, lastQuery.y, lastQuery.z, lastQuery.tpoint, lastQuery.zplane))
        /\ \A i \in DOMAIN mapobject_outlines :
              mapobject_outlines[i].geom_poly = None => ~ReturnedIn(lastQuery.rows, i)

\* C28 witness: a query below the switch level returned a centroid that lies
\* outside its tile, and left out an outline of the type and plane asked for
\* that has no polygon and whose centroid lies in the tile
C28_Witness ==
    /\ Fresh /\ lastQuery.z < QueriedType.min_poly_zoom
    /\ \E row \in lastQuery.rows :
          row.geojson.type = "Point" /\ ~PointIn(row.geojson.coordinates, lastQuery.tile)
    /\ \E i \in DOMAIN mapobject_outlines :
          /\ Matches(i)
          /\ mapobject_outlines[i].geom_poly = None
          /\ PointIn(mapobject_outlines[i].geom_centroid, lastQuery.tile)
          /\ ~ReturnedIn(lastQuery.rows, i)

\* the file ids of the batch of the job
file_ids == job.batch.channel_image_files_ids

\* C29: an illumination-statistics job over a batch of k >= 1 file ids
\* updates its accumulator once per file id in batch order, the first file,
\* read beforehand for the dimensions, not being counted twice, and stores
\* mean, standard deviation and percentiles only after the last of the k
\* updates.
C29_OneUpdatePerFileThenStore ==
    (job # None /\ Len(file_ids) >= 1) =>
        /\ job.updated = SubSeq(file_ids, 1, Len(job.updated))
        /\ job.reads = <<file_ids[1]>> \o SubSeq(file_ids, 1, Len(job.reads) - 1)
        /\ job.pc \in {"loop", "done"} => job.stats.n = Len(job.updated)
        /\ job.pc = "done" <=> stats_file # None
        /\ stats_file # None =>
              /\ job.updated = file_ids
              /\ stats_file.after = Len(file_ids)
              /\ stats_file.mean = mean(job.stats)
              /\ stats_file.std = std(job.stats)
              /\ stats_file.percentiles = percentiles(job.stats).dict

\* C29 witness: a job over two different files has stored its statistics
C29_Witness ==
    /\ job # None /\ job.pc = "done"
    /\ Len(file_ids) = 2 /\ file_ids[1] # file_ids[2]
    /\ stats_file # None /\ stats_file.after = 2

\* the features the deletion selected, those it has removed so far, and the
\* ids of the features of the other flag
SelectedFeatures == {f \in deletion.before.features : f.is_aggregate = deletion.is_aggregate}

RemovedFeatures == deletion.before.features \ features

OtherIds == {f.id : f \in deletion.before.features \ SelectedFeatures}

\* the call has run both of its DELETE statements
Deleted == deletion # None /\ deletion.pc = 3

\* C30: delete_features_cascade removes the feature values of the selected
\* features before the features themselves, so that a value never refers to
\* a feature already removed; when it has returned, no feature with the flag
\* remains, and the features of the other flag and their values are as they
\* were before the call.
C30_ValuesThenFeaturesOthersKept ==
    deletion # None =>
        /\ RemovedFeatures \subseteq SelectedFeatures
        /\ \A f \in RemovedFeatures : \A v \in feature_values : v.feature_id # f.id
        /\ {f \in features : f.id \in OtherIds}
              = deletion.before.features \ SelectedFeatures
        /\ {v \in feature_values : v.feature_id \in OtherIds}
              = {v \in deletion.before.feature_values : v.feature_id \in OtherIds}
        /\ feature_values \subseteq deletion.before.feature_values
        /\ Deleted =>
              /\ \A f \in features : f.is_aggregate # deletion.is_aggregate
              /\ RemovedFeatures = SelectedFeatures

\* C30 witness: the call has returned after removing a feature that had a
\* value, and a feature of the other flag is left with its value
C30_Witness ==
    /\ Deleted
    /\ \E f \in RemovedFeatures :
          \E v \in deletion.before.feature_values : v.feature_id = f.id
    /\ \E f \in features : \E v \in feature_values : v.feature_id = f.id

====
